---- MODULE Spec2Model ----
(***************************************************************************)
(* Model of the gfx_1 renderer: the winit application handler of           *)
(* src/main.rs (App::resumed, App::window_event) driving the render state  *)
(* of src/gfx.rs (State::new, State::render).                              *)
(*                                                                         *)
(* Conventions.  Option<T> is a sequence of length 0 (None) or 1 (Some).   *)
(* f32 literals of the source are written in tenths (0.5 is 5, 1.0 is 10). *)
(* Time is counted in clock ticks; the f32 elapsed time is the tick count  *)
(* rounded to a float of MantBits significant bits.                        *)
(***************************************************************************)
EXTENDS Integers, Sequences, FiniteSets, TLC

(* ------------------------------ bounds --------------------------------- *)
MaxEvents == 5
MaxClock == 5
MaxFormats == 2
MantBits == 2
GridMax == 6

(* ------------------------- program constants --------------------------- *)
SizeOfF32 == 4
FloatsPerVertex == 5
DrawVertices == 6
DrawInstances == 1

Formats == {"Bgra8UnormSrgb", "Rgba8UnormSrgb"}
Sizes == {<<800, 600>>}

VARIABLES
    app_window,      \* App.window: Option of the id of the window held
    app_state,       \* App.state: Option<gfx::State>
    loop,            \* event loop: "running", "exited" or "panicked"
    clock,           \* the monotonic clock read by Instant::now()
    caps,            \* formats reported by surface.get_capabilities(&adapter)
    inner_size,      \* window.inner_size()
    gpu,             \* device/queue/surface side of the current State
    gpuAtEntry,      \* gpu as it was when the last render call was entered
    frameLog,        \* the GPU calls made by the last render call, in order
    acquired,        \* outcome of the last get_current_texture: "none", "ok", "failed"
    lastResult,      \* what the last render call returned: "none", "Ok", "Err"
    angleHistory,    \* angles written by the successful renders of the current State
    firstInit,       \* Option of the (config, pipeline) built by the first State::new
    windowsCreated,  \* number of create_window calls
    initCalls,       \* number of State::new calls
    renderCalls,     \* number of State::render calls
    renderOk,        \* number of State::render calls that returned Ok
    redrawRequests,  \* number of window.request_redraw() calls made by the program
    redrawEvents,    \* number of RedrawRequested events delivered by the host
    events           \* number of host events delivered

vars == <<app_window, app_state, loop, clock, caps, inner_size, gpu, gpuAtEntry,
          frameLog, acquired, lastResult, angleHistory, firstInit, windowsCreated,
          initCalls, renderCalls, renderOk, redrawRequests, redrawEvents, events>>

None == <<>>
Some(x) == <<x>>

(* ---------------------------- pure helpers ----------------------------- *)
RECURSIVE Pow2(_)
Pow2(n) == IF n = 0 THEN 1 ELSE 2 * Pow2(n - 1)

RECURSIVE Exponent(_, _)
Exponent(d, e) == IF d < Pow2(MantBits + e) THEN e ELSE Exponent(d, e + 1)

\* Duration::as_secs_f32: the duration rounded to the nearest float of
\* MantBits significant bits, ties to even.
AsSecsF32(d) ==
    LET e == Exponent(d, 0)
        q == d \div Pow2(e)
        r == d % Pow2(e)
    IN  IF e = 0 THEN d
        ELSE IF 2 * r > Pow2(e) \/ (2 * r = Pow2(e) /\ q % 2 = 1)
             THEN (q + 1) * Pow2(e)
             ELSE q * Pow2(e)

\* faulty variant: the elapsed time wraps around
ElapsedWraps(now, start) == (now - start) % 3

\* Instant::elapsed: time since start on the monotonic clock.
Elapsed(now, start) == now - start

(* ------------------------------ State::new ----------------------------- *)
\* faulty variant: the second triangle repeats the first
VerticesDegenerate ==
    << -5, -5, 10,  0,  0,
        5, -5,  0, 10,  0,
        5,  5,  0,  0, 10,
       -5, -5, 10,  0,  0,
        5,  5,  0,  0, 10,
        5, -5,  0, 10,  0 >>

\* the `vertices` array: x, y, r, g, b per vertex
Vertices ==
    << -5, -5, 10,  0,  0,
        5, -5,  0, 10,  0,
        5,  5,  0,  0, 10,
       -5, -5, 10,  0,  0,
        5,  5,  0,  0, 10,
       -5,  5, 10, 10,  0 >>

\* device.create_buffer_init for the vertex buffer (bytemuck::cast_slice
\* turns each f32 into SizeOfF32 bytes)
VertexBuffer ==
    [contents |-> Vertices,
     size     |-> Len(Vertices) * SizeOfF32,
     usage    |-> {"VERTEX"}]

\* AngleUniform { angle: 0.0, _pad: [0.0; 3] }
AngleInit == [angle |-> 0, pad |-> <<0, 0, 0>>]

\* faulty variant: picks the last reported format
SurfaceConfigurationLast(formats, size) ==
    [usage        |-> {"RENDER_ATTACHMENT"},
     format       |-> formats[Len(formats)],
     width        |-> size[1],
     height       |-> size[2],
     present_mode |-> "Fifo",
     alpha_mode   |-> "Auto",
     desired_maximum_frame_latency |-> 2]

\* the wgpu::SurfaceConfiguration built from the capability query
SurfaceConfiguration(formats, size) ==
    [usage        |-> {"RENDER_ATTACHMENT"},
     format       |-> formats[1],
     width        |-> size[1],
     height       |-> size[2],
     present_mode |-> "Fifo",
     alpha_mode   |-> "Auto",
     desired_maximum_frame_latency |-> 2]

\* the wgpu::VertexBufferLayout of the pipeline
VertexBufferLayout ==
    [array_stride |-> FloatsPerVertex * SizeOfF32,
     step_mode    |-> "Vertex",
     attributes   |-> << [offset |-> 0, shader_location |-> 0, format |-> "Float32x2"],
                         [offset |-> 2 * SizeOfF32, shader_location |-> 1,
                          format |-> "Float32x3"] >>]

\* variant with clockwise front faces
PrimitiveStateCw ==
    [topology |-> "TriangleList", front_face |-> "Cw", cull_mode |-> Some("Back")]

\* the wgpu::PrimitiveState of the pipeline
PrimitiveState ==
    [topology |-> "TriangleList", front_face |-> "Ccw", cull_mode |-> Some("Back")]

\* the wgpu::RenderPipelineDescriptor
RenderPipeline(config) ==
    [vertex_buffers |-> <<VertexBufferLayout>>,
     target_format  |-> config.format,
     blend          |-> "REPLACE",
     primitive      |-> PrimitiveState,
     depth_stencil  |-> None,
     bind_group_layouts |-> << [binding |-> 0, visibility |-> {"VERTEX"}, ty |-> "Uniform"] >>]

\* the value State::new returns
NewState(formats, size, now) ==
    LET config == SurfaceConfiguration(formats, size)
    IN  [config          |-> config,
         render_pipeline |-> RenderPipeline(config),
         vertex_buffer   |-> VertexBuffer,
         start_time      |-> now]

\* the device side of a fresh State: the angle buffer holds AngleInit and
\* nothing is staged on the queue
NewGpu(g) ==
    [angle_buffer |-> AngleInit.angle,
     staged       |-> <<>>,
     drawn        |-> None,
     submissions  |-> g.submissions,
     presents     |-> g.presents]

(* ----------------------------- State::render --------------------------- *)
Call(op, a, b) == <<op, a, b>>

\* faulty variant: the acquisition error is not propagated
RenderCallsNoEarlyReturn(ok, t) ==
    << Call("get_current_texture", 0, 0), Call("create_view", 0, 0),
       Call("create_command_encoder", 0, 0), Call("write_buffer", 0, t),
       Call("begin_render_pass", 0, 0), Call("set_pipeline", 0, 0),
       Call("set_bind_group", 0, 0), Call("set_vertex_buffer", 0, 0),
       Call("draw", DrawVertices, DrawInstances), Call("finish", 0, 0),
       Call("submit", 0, 0), Call("present", 0, 0) >>

\* faulty variant: the commands are submitted twice
RenderCallsTwoSubmits(ok, t) ==
    IF ~ok THEN << Call("get_current_texture", 0, 0) >>
    ELSE << Call("get_current_texture", 0, 0), Call("create_view", 0, 0),
            Call("create_command_encoder", 0, 0), Call("write_buffer", 0, t),
            Call("begin_render_pass", 0, 0), Call("set_pipeline", 0, 0),
            Call("set_bind_group", 0, 0), Call("set_vertex_buffer", 0, 0),
            Call("draw", DrawVertices, DrawInstances), Call("finish", 0, 0),
            Call("submit", 0, 0), Call("submit", 0, 0), Call("present", 0, 0) >>

\* faulty variant: the uniform is written after the submission
RenderCallsWriteAfterSubmit(ok, t) ==
    IF ~ok THEN << Call("get_current_texture", 0, 0) >>
    ELSE << Call("get_current_texture", 0, 0), Call("create_view", 0, 0),
            Call("create_command_encoder", 0, 0),
            Call("begin_render_pass", 0, 0), Call("set_pipeline", 0, 0),
            Call("set_bind_group", 0, 0), Call("set_vertex_buffer", 0, 0),
            Call("draw", DrawVertices, DrawInstances), Call("finish", 0, 0),
            Call("submit", 0, 0), Call("write_buffer", 0, t), Call("present", 0, 0) >>

\* the wgpu calls one render call makes, in program order; ok is the outcome
\* of get_current_texture (the ? returns early on failure), t the elapsed time
RenderCalls(ok, t) ==
    IF ~ok THEN << Call("get_current_texture", 0, 0) >>
    ELSE << Call("get_current_texture", 0, 0), Call("create_view", 0, 0),
            Call("create_command_encoder", 0, 0), Call("write_buffer", 0, t),
            Call("begin_render_pass", 0, 0), Call("set_pipeline", 0, 0),
            Call("set_bind_group", 0, 0), Call("set_vertex_buffer", 0, 0),
            Call("draw", DrawVertices, DrawInstances), Call("finish", 0, 0),
            Call("submit", 0, 0), Call("present", 0, 0) >>

\* the Result render returns
RenderResult(ok) == IF ok THEN "Ok" ELSE "Err"

\* effect of one wgpu call on the device side: queue.write_buffer stages the
\* write, queue.submit applies the staged writes and then runs the recorded
\* pass (which reads the angle buffer), present shows the texture
Apply(g, c) ==
    CASE c[1] = "write_buffer" -> [g EXCEPT !.staged = Append(@, c[3])]
      [] c[1] = "submit" ->
            LET buf == IF g.staged = <<>> THEN g.angle_buffer
                       ELSE g.staged[Len(g.staged)]
            IN  [g EXCEPT !.angle_buffer = buf, !.staged = <<>>,
                          !.drawn = Some(buf), !.submissions = @ + 1]
      [] c[1] = "present" -> [g EXCEPT !.presents = @ + 1]
      [] OTHER -> g

RECURSIVE Run(_, _)
Run(g, calls) == IF calls = <<>> THEN g ELSE Run(Apply(g, Head(calls)), Tail(calls))

(* ------------------------------- Init ---------------------------------- *)
FormatLists == UNION {[1..n -> Formats] : n \in 0..MaxFormats}

Init ==
    /\ app_window = None
    /\ app_state = None
    /\ loop = "running"
    /\ clock = 0
    /\ caps \in FormatLists
    /\ inner_size \in Sizes
    /\ gpu = [angle_buffer |-> 0, staged |-> <<>>, drawn |-> None,
              submissions |-> 0, presents |-> 0]
    /\ gpuAtEntry = gpu
    /\ frameLog = <<>>
    /\ acquired = "none"
    /\ lastResult = "none"
    /\ angleHistory = <<>>
    /\ firstInit = None
    /\ windowsCreated = 0
    /\ initCalls = 0
    /\ renderCalls = 0
    /\ renderOk = 0
    /\ redrawRequests = 0
    /\ redrawEvents = 0
    /\ events = 0

(* ------------------------------ actions -------------------------------- *)
Delivering == loop = "running" /\ events < MaxEvents

renderVars == <<gpu, gpuAtEntry, frameLog, acquired, lastResult, angleHistory,
                renderCalls, renderOk>>

\* time passes on the monotonic clock
Tick ==
    /\ loop = "running"
    /\ clock < MaxClock
    /\ clock' = clock + 1
    /\ UNCHANGED <<app_window, app_state, loop, caps, inner_size, firstInit,
                   windowsCreated, initCalls, redrawRequests, redrawEvents, events>>
    /\ UNCHANGED renderVars

\* the fallible steps of App::resumed, in program order: each is unwrapped
\* (create_window, create_surface, request_adapter, request_device) or
\* indexed (formats[0])
SetupSteps == <<"create_window", "create_surface", "request_adapter",
                "request_device", "formats">>

\* App::resumed when step SetupSteps[k] panics: a window exists once
\* create_window has succeeded, State::new has been entered once the window
\* is stored; the state is not stored and no redraw is requested
App_resumed_panic ==
    /\ Delivering
    /\ \E k \in 1..Len(SetupSteps) :
          /\ SetupSteps[k] = "formats" => caps = <<>>
          /\ app_window' = IF k > 1 THEN Some(windowsCreated + 1) ELSE app_window
          /\ windowsCreated' = IF k > 1 THEN windowsCreated + 1 ELSE windowsCreated
          /\ initCalls' = IF k > 1 THEN initCalls + 1 ELSE initCalls
    /\ loop' = "panicked"
    /\ events' = events + 1
    /\ UNCHANGED <<app_state, clock, caps, inner_size, firstInit, redrawRequests,
                   redrawEvents>>
    /\ UNCHANGED renderVars

\* App::resumed: create a window, build the State, request a redraw
App_resumed ==
    /\ Delivering
    /\ caps # <<>>
    /\ LET st == NewState(caps, inner_size, clock)
       IN  /\ app_window' = Some(windowsCreated + 1)
           /\ windowsCreated' = windowsCreated + 1
           /\ initCalls' = initCalls + 1
           /\ app_state' = Some(st)
           /\ gpu' = NewGpu(gpu)
           /\ angleHistory' = <<>>
           /\ firstInit' = IF firstInit = None
                           THEN Some([config |-> st.config, pipeline |-> st.render_pipeline])
                           ELSE firstInit
    /\ redrawRequests' = redrawRequests + 1
    /\ events' = events + 1
    /\ UNCHANGED <<loop, clock, caps, inner_size, redrawEvents, gpuAtEntry, frameLog,
                   acquired, lastResult, renderCalls, renderOk>>

\* App::window_event, WindowEvent::CloseRequested
App_window_event_close ==
    /\ Delivering
    /\ loop' = "exited"
    /\ events' = events + 1
    /\ UNCHANGED <<app_window, app_state, clock, caps, inner_size, firstInit,
                   windowsCreated, initCalls, redrawRequests, redrawEvents>>
    /\ UNCHANGED renderVars

\* the body of the RedrawRequested arm: state.render().unwrap() when a State
\* exists, nothing otherwise
RedrawArm ==
    IF app_state = None
    THEN /\ UNCHANGED loop
         /\ UNCHANGED renderVars
    ELSE \E ok \in BOOLEAN :
           LET t     == AsSecsF32(Elapsed(clock, app_state[1].start_time))
               calls == RenderCalls(ok, t)
               res   == RenderResult(ok)
           IN  /\ gpuAtEntry' = gpu
               /\ gpu' = Run(gpu, calls)
               /\ frameLog' = calls
               /\ acquired' = IF ok THEN "ok" ELSE "failed"
               /\ lastResult' = res
               /\ renderCalls' = renderCalls + 1
               /\ renderOk' = IF res = "Ok" THEN renderOk + 1 ELSE renderOk
               /\ angleHistory' = IF ok THEN Append(angleHistory, gpu'.angle_buffer)
                                  ELSE angleHistory
               /\ loop' = IF res = "Ok" THEN loop ELSE "panicked"

\* faulty variant: the arm requests the next redraw after rendering
App_window_event_redraw_again ==
    /\ Delivering
    /\ events' = events + 1
    /\ redrawEvents' = redrawEvents + 1
    /\ RedrawArm
    /\ redrawRequests' = IF app_state = None THEN redrawRequests ELSE redrawRequests + 1
    /\ UNCHANGED <<app_window, app_state, clock, caps, inner_size, firstInit,
                   windowsCreated, initCalls>>

\* App::window_event, WindowEvent::RedrawRequested
App_window_event_redraw ==
    /\ Delivering
    /\ events' = events + 1
    /\ redrawEvents' = redrawEvents + 1
    /\ RedrawArm
    /\ UNCHANGED <<app_window, app_state, clock, caps, inner_size, firstInit,
                   windowsCreated, initCalls, redrawRequests>>

\* App::window_event, any other WindowEvent
App_window_event_other ==
    /\ Delivering
    /\ events' = events + 1
    /\ UNCHANGED <<app_window, app_state, loop, clock, caps, inner_size, firstInit,
                   windowsCreated, initCalls, redrawRequests, redrawEvents>>
    /\ UNCHANGED renderVars

Next ==
    \/ Tick
    \/ App_resumed
    \/ App_resumed_panic
    \/ App_window_event_close
    \/ App_window_event_redraw
    \/ App_window_event_other

Spec == Init /\ [][Next]_vars

(* --------------------------- claim helpers ----------------------------- *)
Ops(log) == [i \in 1..Len(log) |-> log[i][1]]

Count(op, log) == Cardinality({i \in 1..Len(log) : log[i][1] = op})

\* position of the only call of op in log, 0 when op is absent or repeated
Pos(op, log) ==
    IF Count(op, log) = 1 THEN CHOOSE i \in 1..Len(log) : log[i][1] = op ELSE 0

\* the steps of a successful render in the order the protocol gives them
ProtocolOrder ==
    <<"get_current_texture", "create_view", "write_buffer", "begin_render_pass",
      "set_pipeline", "set_bind_group", "set_vertex_buffer", "draw", "submit",
      "present">>

NonDecreasing(h) == \A i \in 1..Len(h) : \A j \in i..Len(h) : h[i] <= h[j]

\* geometry of the vertex buffer, read back through the pipeline's layout
NumVertices(buf) == buf.size \div VertexBufferLayout.array_stride

Vtx(buf, i) ==
    <<buf.contents[FloatsPerVertex * (i - 1) + 1], buf.contents[FloatsPerVertex * (i - 1) + 2]>>

Triangle(buf, k) == <<Vtx(buf, 3 * k - 2), Vtx(buf, 3 * k - 1), Vtx(buf, 3 * k)>>

Cross(a, b, p) == (b[1] - a[1]) * (p[2] - a[2]) - (b[2] - a[2]) * (p[1] - a[1])

\* twice the signed area: positive for counter-clockwise winding
Area2(tri) == Cross(tri[1], tri[2], tri[3])

Abs(x) == IF x < 0 THEN -x ELSE x

InTriangle(p, tri) ==
    LET d1 == Cross(tri[1], tri[2], p)
        d2 == Cross(tri[2], tri[3], p)
        d3 == Cross(tri[3], tri[1], p)
    IN  /\ Area2(tri) # 0
        /\ \/ (d1 >= 0 /\ d2 >= 0 /\ d3 >= 0)
           \/ (d1 <= 0 /\ d2 <= 0 /\ d3 <= 0)

InQuad(p) == -5 <= p[1] /\ p[1] <= 5 /\ -5 <= p[2] /\ p[2] <= 5

Grid == (-GridMax..GridMax) \X (-GridMax..GridMax)

Corners(tri) == {tri[1], tri[2], tri[3]}

(* ------------------------------- claims -------------------------------- *)

\* C1: a render call whose get_current_texture fails returns Err and makes
\* no queue submission and no present call in that invocation.
C1_AcquireFailureReturnsErr ==
    acquired = "failed" =>
        /\ lastResult = "Err"
        /\ Count("submit", frameLog) = 0
        /\ Count("present", frameLog) = 0
        /\ gpu.submissions = gpuAtEntry.submissions
        /\ gpu.presents = gpuAtEntry.presents

C1_Witness == acquired = "failed" /\ renderOk >= 1 /\ renderCalls = renderOk + 1

\* C2: every render call makes exactly one submission and one present, or
\* returns Err at the acquisition step having made neither; so the numbers of
\* submissions, of presents and of calls that returned Ok are equal.
C2_OneSubmitOnePresentPerOk ==
    /\ gpu.submissions = renderOk
    /\ gpu.presents = renderOk
    /\ renderCalls > 0 =>
          \/ /\ lastResult = "Ok"
             /\ gpu.submissions = gpuAtEntry.submissions + 1
             /\ gpu.presents = gpuAtEntry.presents + 1
          \/ /\ lastResult = "Err"
             /\ acquired = "failed"
             /\ Ops(frameLog) = <<"get_current_texture">>
             /\ gpu.submissions = gpuAtEntry.submissions
             /\ gpu.presents = gpuAtEntry.presents

C2_Witness == renderOk = 2 /\ renderCalls = 3 /\ lastResult = "Err"

\* C3: a successful render call makes its steps in the protocol's order:
\* acquire, view, uniform write, the one render pass (begin with clear, set
\* pipeline, set bind group 0, set vertex buffer, draw 6 x 1), submit,
\* present; the submitted pass reads the value just written.
C3_RenderStepsInOrder ==
    lastResult = "Ok" =>
        /\ \A i \in 1..Len(ProtocolOrder) : Pos(ProtocolOrder[i], frameLog) > 0
        /\ \A i \in 1..(Len(ProtocolOrder) - 1) :
              Pos(ProtocolOrder[i], frameLog) < Pos(ProtocolOrder[i + 1], frameLog)
        /\ Pos("get_current_texture", frameLog) = 1
        /\ Pos("present", frameLog) = Len(frameLog)
        /\ frameLog[Pos("draw", frameLog)] = Call("draw", 6, 1)
        /\ frameLog[Pos("set_bind_group", frameLog)][2] = 0
        /\ angleHistory # <<>> =>
              /\ gpu.staged = <<>>
              /\ gpu.drawn = Some(frameLog[Pos("write_buffer", frameLog)][3])

C3_Witness ==
    /\ lastResult = "Ok"
    /\ angleHistory # <<>>
    /\ gpu.drawn # Some(0)

\* C4: the angles written by the successive successful renders of a State
\* never decrease, and before the first render the Time Uniform holds 0.0.
C4_AngleMonotonic ==
    app_state # None =>
        /\ NonDecreasing(angleHistory)
        /\ angleHistory = <<>> => gpu.angle_buffer = 0
        /\ angleHistory # <<>> =>
              /\ angleHistory[1] >= 0
              /\ gpu.angle_buffer = angleHistory[Len(angleHistory)]

C4_Witness ==
    /\ Len(angleHistory) >= 3
    /\ angleHistory[1] < angleHistory[2]
    /\ angleHistory[2] = angleHistory[3]

\* C5: a failed surface acquisition during a redraw does not crash the
\* process; the event layer stays in the event loop.
C5_NoCrashOnAcquireFailure == lastResult = "Err" => loop # "panicked"

\* C6: over any sequence of host events the window is created and State::new
\* is called at most once; a second resumed creates neither again.
C6_InitExactlyOnce == windowsCreated <= 1 /\ initCalls <= 1

\* the buffer State::new creates, read as triangles: 6 vertices of 5 floats,
\* two triangles with a common edge whose union is the quad
CreatedBufferIsQuad ==
    LET buf == VertexBuffer
        t1  == Triangle(buf, 1)
        t2  == Triangle(buf, 2)
    IN  /\ Len(buf.contents) = 30
        /\ NumVertices(buf) = 6
        /\ NumVertices(buf) * FloatsPerVertex = Len(buf.contents)
        /\ Cardinality(Corners(t1) \cap Corners(t2)) = 2
        /\ \A p \in Grid : InQuad(p) <=> (InTriangle(p, t1) \/ InTriangle(p, t2))
        /\ Abs(Area2(t1)) + Abs(Area2(t2)) = 2 * 10 * 10
        /\ buf.usage = {"VERTEX"}

\* C7: the Geometry Buffer holds exactly 6 vertices (30 floats), two
\* triangles that share an edge and whose union is the quad from (-0.5,-0.5)
\* to (0.5,0.5); it is never written after creation; the draw call's vertex
\* count equals the number of vertices in the buffer.
C7_QuadGeometry ==
    /\ [](app_state # None =>
            /\ app_state[1].vertex_buffer = VertexBuffer
            /\ CreatedBufferIsQuad
            /\ DrawVertices = NumVertices(app_state[1].vertex_buffer)
            /\ lastResult = "Ok" =>
                  frameLog[Pos("draw", frameLog)][2] = NumVertices(app_state[1].vertex_buffer))
    /\ [][app_state # None /\ app_state' # None =>
            app_state'[1].vertex_buffer = app_state[1].vertex_buffer]_vars

C7_Witness == app_state # None /\ renderOk >= 2

\* C8 as stated: triangle list, back-face culling, clockwise front faces, no
\* depth/stencil state.
C8_Original ==
    app_state # None =>
        LET pl == app_state[1].render_pipeline
        IN  /\ pl.primitive.topology = "TriangleList"
            /\ pl.primitive.cull_mode = Some("Back")
            /\ pl.primitive.front_face = "Cw"
            /\ pl.depth_stencil = None

\* C8 amended: triangle list, back-face culling, counter-clockwise front
\* faces, no depth/stencil state.
C8_PipelinePrimitive ==
    app_state # None =>
        LET pl == app_state[1].render_pipeline
        IN  /\ pl.primitive.topology = "TriangleList"
            /\ pl.primitive.cull_mode = Some("Back")
            /\ pl.primitive.front_face = "Ccw"
            /\ pl.depth_stencil = None

C8_Witness == app_state # None /\ initCalls = 1 /\ renderOk = 1

\* C9: after State::new the surface is configured with the first reported
\* format, the pipeline's colour target has the configured format, a re-run
\* of initialization with the same inputs gives the same configuration and
\* pipeline, and the vertex stride is 20 bytes (position at 0, colour at 8).
C9_FormatAndLayout ==
    app_state # None =>
        LET st  == app_state[1]
            lay == st.render_pipeline.vertex_buffers[1]
        IN  /\ st.config.format = caps[1]
            /\ st.render_pipeline.target_format = st.config.format
            /\ firstInit = Some([config |-> st.config, pipeline |-> st.render_pipeline])
            /\ lay.array_stride = 20
            /\ lay.attributes[1].offset = 0
            /\ lay.attributes[1].format = "Float32x2"
            /\ lay.attributes[2].offset = 8
            /\ lay.attributes[2].format = "Float32x3"

C9_Witness ==
    /\ app_state # None
    /\ initCalls >= 2
    /\ Len(caps) >= 2
    /\ caps[1] # caps[2]

====
